---- MODULE Spec2Model ----
(***************************************************************************)
(* Realtime update hub of the task-management backend (setupWebSocket).    *)
(*                                                                         *)
(* Every callback of the hub is one action.  An async callback is cut at   *)
(* its awaits: the step that resumes it performs the awaited data-store    *)
(* call (which may fail) and runs the code up to the next await.           *)
(* `sent` holds the messages handed to ws.send by the last step only;       *)
(* `last` names that step, its input and the state it started from.        *)
(* A ws.send of a broadcast may throw (`threw` names the recipients for    *)
(* which it does); the direct replies of a handler do not: ws.send on a    *)
(* socket that is not OPEN reports its error to the (absent) callback.     *)
(***************************************************************************)
EXTENDS Integers, Sequences, FiniteSets, Bags, TLC

\* ---- bounds of the model ----
MaxConns == 2
MaxTasks == 1
MaxUsers == 1
MaxMembers == 2
MaxHandlers == 1
MaxRacing == 2
MaxCycles == 1
MaxActivities == 1
MaxActors == 2
MaxAssigned == 40

Conns == 1..MaxConns
TaskIds == 1..MaxTasks
UserIds == 1..MaxUsers
UserNames == {"ann"}

Statuses == {"pending", "in_progress", "completed", "cancelled"}

\* completedAt of a row or of a message: 0 is null, 1 is a date
Dates == 0..1

\* ---- validateTaskUpdate ----
\* mutant: a completed task can no longer be reopened
validTransitionsNoReopen ==
  [pending |-> <<"in_progress", "completed", "cancelled">>,
   in_progress |-> <<"completed", "cancelled", "pending">>,
   completed |-> <<>>,
   cancelled |-> <<"pending">>]

\* mutant: a completed task can be cancelled
validTransitionsLoose ==
  [pending |-> <<"in_progress", "completed", "cancelled">>,
   in_progress |-> <<"completed", "cancelled", "pending">>,
   completed |-> <<"pending", "cancelled">>,
   cancelled |-> <<"pending">>]

validTransitions ==
  [pending |-> <<"in_progress", "completed", "cancelled">>,
   in_progress |-> <<"completed", "cancelled", "pending">>,
   completed |-> <<"pending">>,
   cancelled |-> <<"pending">>]

includes(list, x) == \E i \in DOMAIN list : list[i] = x

validateTaskUpdate(currentStatus, newStatus) ==
  IF currentStatus \notin DOMAIN validTransitions
  THEN [isValid |-> FALSE, message |-> <<"Invalid current status", currentStatus>>]
  ELSE IF ~includes(validTransitions[currentStatus], newStatus)
  THEN [isValid |-> FALSE,
        message |-> <<"Cannot change task status", currentStatus, newStatus,
                      validTransitions[currentStatus]>>]
  ELSE [isValid |-> TRUE, message |-> <<>>]

\* ---- messages ----
ParseErrorMsg ==
  [type |-> "error", code |-> "MESSAGE_PARSE_ERROR", message |-> <<"Invalid message format">>]
\* mutant: without the test of currentTask the TypeError of currentTask.status
\* lands in the catch block
TaskNotFoundAsDatabaseError ==
  [type |-> "error", code |-> "DATABASE_ERROR",
   message |-> <<"Failed to update task in database">>]

TaskNotFoundMsg ==
  [type |-> "error", code |-> "TASK_NOT_FOUND", message |-> <<"Task not found">>]
InvalidTransitionMsg(validation) ==
  [type |-> "error", code |-> "INVALID_STATUS_TRANSITION", message |-> validation.message]
DatabaseErrorMsg ==
  [type |-> "error", code |-> "DATABASE_ERROR",
   message |-> <<"Failed to update task in database">>]
ConnectedMsg ==
  [type |-> "connected", message |-> <<"Successfully connected to real-time updates">>]
TaskEventMsg(ty, updatedTask, activity, client) ==
  [type |-> ty, task |-> updatedTask,
   activity |-> [action |-> activity.action,
                 user |-> [id |-> client.userId, username |-> client.username]]]
TeamPerformanceMsg(performanceMetrics) ==
  [type |-> "team_performance", members |-> performanceMetrics]

\* an inbound frame: json is FALSE when JSON.parse throws; a field the frame
\* lacks is 0, "" or FALSE, which the code's truthiness tests cannot tell from
\* an absent one
Frame(js, ty, tid, ch, st, ca, uid, un) ==
  [json |-> js, type |-> ty, taskId |-> tid, changes |-> ch, status |-> st,
   completedAt |-> ca, userId |-> uid, username |-> un]

NonJsonFrames == {Frame(FALSE, "", 0, FALSE, "", 0, 0, "")}

\* the application part of a JSON frame: <<type, taskId, changes, status, completedAt>>
TaskUpdateShapes(statuses, dates) ==
  {<<"task_update", t, TRUE, st, ca>> : t \in TaskIds, st \in statuses, ca \in dates}

\* every kind of frame, with task updates between two statuses only
HubShapes ==
  {<<"ping", 0, FALSE, "", 0>>,
   <<"subscribe_team_performance", 0, FALSE, "", 0>>,
   <<"task_update", 0, TRUE, "pending", 0>>}
  \cup {<<"task_update", t, FALSE, "", 0>> : t \in TaskIds}
  \cup TaskUpdateShapes({"pending", "in_progress"}, {0})

\* task updates only, to every status and to one that is none
TaskShapes == TaskUpdateShapes(Statuses \cup {"archived"}, Dates)

\* task updates only, without completion dates
RaceShapes == TaskUpdateShapes(Statuses, {0})

\* the userId and username of a frame: any in the first frame of a connection,
\* none afterwards (the handler never reads them then)
Identities(first) ==
  IF first THEN (0..MaxUsers) \X ({""} \cup UserNames) ELSE {<<0, "">>}

FramesOf(shapes, ids) ==
  NonJsonFrames \cup
  {Frame(TRUE, a[1], a[2], a[3], a[4], a[5], id[1], id[2]) : a \in shapes, id \in ids}

Frames(shapes, first) == FramesOf(shapes, Identities(first))

\* frames that claim an identity whenever they are sent: none, a user id
\* without a name, and the identities of MaxActors users
ActorIds == 1..MaxActors
ActorNames == <<"ann", "bob", "cat", "dan">>
ActorName(u) == ActorNames[((u - 1) % Len(ActorNames)) + 1]
ClaimedIdentities ==
  {<<0, "">>} \cup {<<u, "">> : u \in ActorIds} \cup {<<u, ActorName(u)>> : u \in ActorIds}

\* a frame the hub ignores, and the task updates to in_progress
ActorShapes ==
  {<<"ping", 0, FALSE, "", 0>>} \cup TaskUpdateShapes({"in_progress"}, {0})

\* ---- state ----
VARIABLES
  connState,               \* ws.readyState of each connection ("NONE" before it connects)
  authPending,             \* the ws.once('message') listener is still installed
  clients,                 \* the registry: Map<string, Client>
  performanceSubscribers,  \* Set<string>
  tasks,                   \* the tasks table
  deleting,                \* tasks whose DELETE route has removed the activities only
  taskActivities,          \* the task_activities table
  handlers,                \* the bag of task_update handlers suspended at an await
  perfFind,                \* broadcastTeamPerformance calls awaiting users.findMany
  perfMetrics,             \* broadcastTeamPerformance calls awaiting Promise.all
  sent,                    \* messages handed to ws.send by the last step, per connection
  last                     \* the last step

vars == <<connState, authPending, clients, performanceSubscribers, tasks, deleting,
          taskActivities, handlers, perfFind, perfMetrics, sent, last>>

NoClient == [registered |-> FALSE]
Client(c, uid, un) == [registered |-> TRUE, id |-> c, userId |-> uid, username |-> un]

NoTask == [exists |-> FALSE]
Row(t, st, ca) == [exists |-> TRUE, id |-> t, status |-> st, completedAt |-> ca]

\* a suspended task_update handler: the await it is at and the locals in its
\* scope afterwards (of currentTask only the status; of parsedMessage the
\* taskId, the status, the completedAt and the userId)
Handler(pc, c, client, m, currentStatus, updatedTask) ==
  [pc |-> pc, conn |-> c, client |-> client,
   taskId |-> m.taskId, status |-> m.status, completedAt |-> m.completedAt,
   userId |-> m.userId,
   currentStatus |-> currentStatus, updatedTask |-> updatedTask]

Suspended(pc) == {h \in BagToSet(handlers) : h.pc = pc}
Resume(h) == handlers (-) SetToBag({h})

NoSent == [c \in Conns |-> <<>>]

\* the state a step starts from, kept in `last`
Before ==
  [connState |-> connState, clients |-> clients, subscribers |-> performanceSubscribers,
   tasks |-> tasks, taskActivities |-> taskActivities, handlers |-> handlers,
   perfFind |-> perfFind, perfMetrics |-> perfMetrics]

\* the users table: MaxMembers team members and an administrator
users ==
  [i \in 1..(MaxMembers + 1) |->
     [id |-> i, role |-> IF i <= MaxMembers THEN "team_member" ELSE "admin"]]

\* mutant: the query without its where clause
teamMembersUnfiltered == users

\* db.query.users.findMany({ where: eq(users.role, 'team_member') })
teamMembers == SelectSeq(users, LAMBDA u : u.role = "team_member")

Init ==
  /\ connState = [c \in Conns |-> "NONE"]
  /\ authPending = [c \in Conns |-> TRUE]
  /\ clients = [c \in Conns |-> NoClient]
  /\ performanceSubscribers = {}
  /\ tasks = [t \in TaskIds |-> Row(t, "pending", 0)]
  /\ deleting = {}
  /\ taskActivities = <<>>
  /\ handlers = EmptyBag
  /\ perfFind = 0
  /\ perfMetrics = 0
  /\ sent = NoSent
  /\ last = [op |-> "init"]

\* ---- wss.on('connection') ----
Connect(c) ==
  /\ connState[c] = "NONE"
  /\ \A d \in Conns : d < c => connState[d] # "NONE"
  /\ connState' = [connState EXCEPT ![c] = "OPEN"]
  /\ sent' = NoSent
  /\ last' = [op |-> "connection", conn |-> c, before |-> Before]
  /\ UNCHANGED <<authPending, clients, performanceSubscribers, tasks, deleting,
                 taskActivities, handlers, perfFind, perfMetrics>>

\* ---- ws.on('message') up to its first await, then ws.once('message') ----
IsSubscribe(m) == m.type = "subscribe_team_performance"
IsTaskUpdate(m) == m.type = "task_update" /\ m.taskId # 0 /\ m.changes

\* mutant: the listener installed with ws.on registers on every frame
AuthOkEveryFrame(c, m) == m.json /\ m.userId # 0 /\ m.username # ""

\* the once-listener registers the connection
AuthOk(c, m) == authPending[c] /\ m.json /\ m.userId # 0 /\ m.username # ""
\* mutant: every frame that fails to parse closes the connection
AuthThrowsAlways(c, m) == ~m.json

\* the once-listener catches the parse error and calls ws.close()
AuthThrows(c, m) == authPending[c] /\ ~m.json

\* mutant: the handler without its registry check
AcceptedUnregistered(c, m) == m.json

\* mutant: the handshake listener runs before the message handler, so the
\* handshake frame is handled on the connection it has just registered
AcceptedAfterHandshake(c, m) == m.json /\ (clients[c].registered \/ AuthOk(c, m))

\* const client = clients.get(clientId); if (!client) return;
Accepted(c, m) == m.json /\ clients[c].registered

\* inflight bounds the handlers the model lets be suspended at once
OnMessage(c, m, inflight) ==
  LET client == clients[c]
      sub == Accepted(c, m) /\ IsSubscribe(m)
      upd == Accepted(c, m) /\ IsTaskUpdate(m)
      reply == (IF m.json THEN <<>> ELSE <<ParseErrorMsg>>)
               \o (IF AuthOk(c, m) THEN <<ConnectedMsg>> ELSE <<>>)
  IN
  /\ connState[c] \in {"OPEN", "CLOSING"}
  /\ sub => perfFind + perfMetrics < MaxCycles
  /\ upd => BagCardinality(handlers) < inflight
  /\ performanceSubscribers' =
       IF sub THEN performanceSubscribers \cup {c} ELSE performanceSubscribers
  /\ perfFind' = IF sub THEN perfFind + 1 ELSE perfFind
  /\ handlers' =
       IF upd
       THEN handlers (+) SetToBag({Handler("select", c, client, m, "", NoTask)})
       ELSE handlers
  /\ clients' =
       IF AuthOk(c, m)
       THEN [clients EXCEPT ![c] = Client(c, m.userId, m.username)]
       ELSE clients
  /\ connState' =
       IF AuthThrows(c, m) THEN [connState EXCEPT ![c] = "CLOSING"] ELSE connState
  /\ authPending' = [authPending EXCEPT ![c] = FALSE]
  /\ sent' = [NoSent EXCEPT ![c] = reply]
  /\ last' = [op |-> "message", conn |-> c, frame |-> m, first |-> authPending[c],
              uncaught |-> FALSE, before |-> Before]
  /\ UNCHANGED <<tasks, deleting, taskActivities, perfMetrics>>

\* ---- ws.on('close') ----
\* the peer starts the closing handshake: readyState becomes CLOSING
PeerClosing(c) ==
  /\ connState[c] = "OPEN"
  /\ connState' = [connState EXCEPT ![c] = "CLOSING"]
  /\ sent' = NoSent
  /\ last' = [op |-> "closing", conn |-> c, before |-> Before]
  /\ UNCHANGED <<authPending, clients, performanceSubscribers, tasks, deleting,
                 taskActivities, handlers, perfFind, perfMetrics>>

\* mutant: the close listener cancels the handlers of its connection
OnCloseCancels(c) ==
  /\ connState[c] \in {"OPEN", "CLOSING"}
  /\ connState' = [connState EXCEPT ![c] = "CLOSED"]
  /\ performanceSubscribers' = performanceSubscribers \ {c}
  /\ clients' = [clients EXCEPT ![c] = NoClient]
  /\ handlers' = [h \in {g \in DOMAIN handlers : g.conn # c} |-> handlers[h]]
  /\ sent' = NoSent
  /\ last' = [op |-> "close", conn |-> c, before |-> Before]
  /\ UNCHANGED <<authPending, tasks, deleting, taskActivities, perfFind, perfMetrics>>

\* mutant: the close listener forgets the subscription set
OnCloseKeepsSubscription(c) ==
  /\ connState[c] \in {"OPEN", "CLOSING"}
  /\ connState' = [connState EXCEPT ![c] = "CLOSED"]
  /\ clients' = [clients EXCEPT ![c] = NoClient]
  /\ sent' = NoSent
  /\ last' = [op |-> "close", conn |-> c, before |-> Before]
  /\ UNCHANGED <<authPending, performanceSubscribers, tasks, deleting, taskActivities,
                 handlers, perfFind, perfMetrics>>

OnClose(c) ==
  /\ connState[c] \in {"OPEN", "CLOSING"}
  /\ connState' = [connState EXCEPT ![c] = "CLOSED"]
  /\ performanceSubscribers' = performanceSubscribers \ {c}
  /\ clients' = [clients EXCEPT ![c] = NoClient]
  /\ sent' = NoSent
  /\ last' = [op |-> "close", conn |-> c, before |-> Before]
  /\ UNCHANGED <<authPending, tasks, deleting, taskActivities, handlers,
                 perfFind, perfMetrics>>

\* ---- broadcastToClients ----
BroadcastTargets(excludeClientId) ==
  {c \in Conns : clients[c].registered /\ c # excludeClientId /\ connState[c] = "OPEN"}

broadcastToClients(message, excludeClientId) ==
  [c \in Conns |-> IF c \in BroadcastTargets(excludeClientId) THEN <<message>> ELSE <<>>]

\* ---- task_update handler, resumed at each of its three awaits ----
\* mutant: a catch block that only logs
CatchDatabaseErrorSilent(h) ==
  /\ handlers' = Resume(h)
  /\ sent' = NoSent

\* the catch block of the handler
CatchDatabaseError(h) ==
  /\ handlers' = Resume(h)
  /\ sent' = [NoSent EXCEPT ![h.conn] = <<DatabaseErrorMsg>>]

\* await db.select().from(tasks).where(eq(tasks.id, taskId)).limit(1)
TaskSelect(h, ok) ==
  LET currentTask == tasks[h.taskId]
      validation == validateTaskUpdate(currentTask.status, h.status)
  IN
  /\ h \in Suspended("select")
  /\ IF ~ok THEN CatchDatabaseError(h)
     ELSE IF ~currentTask.exists
     THEN /\ handlers' = Resume(h)
          /\ sent' = [NoSent EXCEPT ![h.conn] = <<TaskNotFoundMsg>>]
     ELSE IF ~validation.isValid
     THEN /\ handlers' = Resume(h)
          /\ sent' = [NoSent EXCEPT ![h.conn] = <<InvalidTransitionMsg(validation)>>]
     ELSE /\ handlers' = Resume(h) (+) SetToBag(
                {[h EXCEPT !.pc = "update", !.currentStatus = currentTask.status]})
          /\ sent' = NoSent
  /\ last' = [op |-> "select", conn |-> h.conn, h |-> h, ok |-> ok, uncaught |-> FALSE,
              before |-> Before]
  /\ UNCHANGED <<connState, authPending, clients, performanceSubscribers, tasks,
                 deleting, taskActivities, perfFind, perfMetrics>>

\* completedAt: changes.completedAt ? new Date(changes.completedAt) : null
NewCompletedAt(completedAt) == IF completedAt # 0 THEN completedAt ELSE 0

\* mutant: the update guarded by the status the handler read (an optimistic lock)
TaskUpdateRowIfUnchanged(h, ok) ==
  LET t == h.taskId
      updatedTask == IF tasks[t].exists /\ tasks[t].status = h.currentStatus
                     THEN Row(t, h.status, NewCompletedAt(h.completedAt))
                     ELSE NoTask
  IN
  /\ h \in Suspended("update")
  /\ IF ~ok THEN CatchDatabaseError(h) /\ UNCHANGED tasks
     ELSE /\ tasks' = IF updatedTask.exists THEN [tasks EXCEPT ![t] = updatedTask] ELSE tasks
          /\ handlers' = Resume(h) (+) SetToBag(
                {[h EXCEPT !.pc = "insert", !.updatedTask = updatedTask]})
          /\ sent' = NoSent
  /\ last' = [op |-> "update", conn |-> h.conn, h |-> h, ok |-> ok, uncaught |-> FALSE,
              before |-> Before]
  /\ UNCHANGED <<connState, authPending, clients, performanceSubscribers,
                 deleting, taskActivities, perfFind, perfMetrics>>

\* await db.update(tasks).set({...}).where(eq(tasks.id, taskId)).returning()
TaskUpdateRow(h, ok) ==
  LET t == h.taskId
      updatedTask == IF tasks[t].exists
                     THEN Row(t, h.status, NewCompletedAt(h.completedAt))
                     ELSE NoTask
  IN
  /\ h \in Suspended("update")
  /\ IF ~ok THEN CatchDatabaseError(h) /\ UNCHANGED tasks
     ELSE /\ tasks' = IF tasks[t].exists THEN [tasks EXCEPT ![t] = updatedTask] ELSE tasks
          /\ handlers' = Resume(h) (+) SetToBag(
                {[h EXCEPT !.pc = "insert", !.updatedTask = updatedTask]})
          /\ sent' = NoSent
  /\ last' = [op |-> "update", conn |-> h.conn, h |-> h, ok |-> ok, uncaught |-> FALSE,
              before |-> Before]
  /\ UNCHANGED <<connState, authPending, clients, performanceSubscribers,
                 deleting, taskActivities, perfFind, perfMetrics>>

\* mutant: the activity attributed to the userId of the message
NewActivityFromMessage(h) ==
  [taskId |-> h.taskId, userId |-> h.userId,
   action |-> <<"Status changed", h.currentStatus, h.status>>]

\* the values of the task_activities row
NewActivity(h) ==
  [taskId |-> h.taskId, userId |-> h.client.userId,
   action |-> <<"Status changed", h.currentStatus, h.status>>]

\* await db.insert(taskActivities).values({...}).returning(), then the events
\* mutant: a successful update also starts a team-performance recomputation
TaskInsertRecalculates(h, ok, threw) ==
  LET activity == NewActivity(h)
  IN
  /\ h \in Suspended("insert")
  /\ ok => Len(taskActivities) < MaxActivities
  /\ threw \subseteq (IF ok /\ h.updatedTask.exists THEN BroadcastTargets(h.conn) ELSE {})
  /\ IF ~ok THEN CatchDatabaseError(h) /\ UNCHANGED <<taskActivities, perfFind>>
     ELSE /\ taskActivities' = Append(taskActivities, activity)
          /\ handlers' = Resume(h)
          /\ perfFind' = IF h.updatedTask.exists THEN perfFind + 1 ELSE perfFind
          /\ sent' =
               IF h.updatedTask.exists
               THEN [broadcastToClients(
                       TaskEventMsg("task_update", h.updatedTask, activity, h.client),
                       h.conn)
                     EXCEPT ![h.conn] =
                       <<TaskEventMsg("task_update_success", h.updatedTask, activity,
                                      h.client)>>]
               ELSE NoSent
  /\ last' = [op |-> "insert", conn |-> h.conn, h |-> h, ok |-> ok, threw |-> threw,
              uncaught |-> FALSE, before |-> Before]
  /\ UNCHANGED <<connState, authPending, clients, performanceSubscribers, tasks,
                 deleting, perfMetrics>>

\* threw: the recipients of the broadcast whose ws.send throws
TaskInsert(h, ok, threw) ==
  LET activity == NewActivity(h)
  IN
  /\ h \in Suspended("insert")
  /\ ok => Len(taskActivities) < MaxActivities
  /\ threw \subseteq (IF ok /\ h.updatedTask.exists THEN BroadcastTargets(h.conn) ELSE {})
  /\ IF ~ok THEN CatchDatabaseError(h) /\ UNCHANGED taskActivities
     ELSE /\ taskActivities' = Append(taskActivities, activity)
          /\ handlers' = Resume(h)
          /\ sent' =
               IF h.updatedTask.exists
               THEN [broadcastToClients(
                       TaskEventMsg("task_update", h.updatedTask, activity, h.client),
                       h.conn)
                     EXCEPT ![h.conn] =
                       <<TaskEventMsg("task_update_success", h.updatedTask, activity,
                                      h.client)>>]
               ELSE NoSent
  /\ last' = [op |-> "insert", conn |-> h.conn, h |-> h, ok |-> ok, threw |-> threw,
              uncaught |-> FALSE, before |-> Before]
  /\ UNCHANGED <<connState, authPending, clients, performanceSubscribers, tasks,
                 deleting, perfFind, perfMetrics>>

\* ---- broadcastTeamPerformance ----
\* mutant: the snapshot goes to every registered connection
PerfTargetsEveryClient == {c \in Conns : clients[c].registered /\ connState[c] = "OPEN"}

PerfTargets ==
  {c \in performanceSubscribers : clients[c].registered /\ connState[c] = "OPEN"}

\* calculateTeamPerformance: await db.query.users.findMany; a rejection is
\* handled by nobody
PerfFindMany(ok) ==
  /\ perfFind > 0
  /\ perfFind' = perfFind - 1
  /\ perfMetrics' = IF ok THEN perfMetrics + 1 ELSE perfMetrics
  /\ sent' = NoSent
  /\ last' = [op |-> "findMany", ok |-> ok, uncaught |-> ~ok, before |-> Before]
  /\ UNCHANGED <<connState, authPending, clients, performanceSubscribers, tasks,
                 deleting, taskActivities, handlers>>

\* ---- the metrics of one member (calculateTeamPerformance, lines 80-104) ----
\* The counts are JavaScript numbers: `/` and `*` round their exact result to
\* the nearest binary64 value, ties to even.  A positive number is kept as
\* [w, e] and stands for w * 2^(e - 4 * LimbBits), where w, an integer of
\* Precision significant bits, is written in four digits l[1..4] of LimbBits
\* bits each under a leading part o: w = o * 2^(4 * LimbBits) + l[1] l[2] l[3] l[4].
Precision == 53
LimbBits == 14

RECURSIVE Pow2(_)
Pow2(k) == IF k <= 0 THEN 1 ELSE 2 * Pow2(k - 1)

Limb == Pow2(LimbBits)

Min(a, b) == IF a <= b THEN a ELSE b

\* the number of bits of o
BitLength(o) == CHOOSE n \in 0..(2 * LimbBits) : o < Pow2(n) /\ (n > 0 => o >= Pow2(n - 1))

\* brings every digit under Limb, carrying upwards
Carry(o, l) ==
  LET c3 == l[3] + (l[4] \div Limb)
      c2 == l[2] + (c3 \div Limb)
      c1 == l[1] + (c2 \div Limb)
  IN [o |-> o + (c1 \div Limb), l |-> <<c1 % Limb, c2 % Limb, c3 % Limb, l[4] % Limb>>]

\* w rounded to Precision significant bits, to the nearest, ties to even;
\* sticky tells whether bits beyond l[4] were set
RoundToEven(w, sticky) ==
  LET d == (4 * LimbBits - Precision) + BitLength(w.o)
      low == w.l[4] % Pow2(d)
      half == Pow2(d - 1)
      up == low >= half /\ (low > half \/ sticky \/ (w.l[4] \div Pow2(d)) % 2 = 1)
  IN Carry(w.o, [w.l EXCEPT ![4] = @ - low + (IF up THEN Pow2(d) ELSE 0)])

\* a / b for integers a > 0, b > 0: a or b is doubled until 1/2 <= a / b < 1,
\* then the digits come from the long division
Divide(a, b) ==
  LET k == IF a < b
           THEN CHOOSE n \in 0..b : a * Pow2(n) < b /\ 2 * a * Pow2(n) >= b
           ELSE CHOOSE n \in 1..a : a < b * Pow2(n) /\ a >= b * Pow2(n - 1)
      num == IF a < b THEN a * Pow2(k) ELSE a
      den == IF a < b THEN b ELSE b * Pow2(k)
      l1 == (num * Limb) \div den
      r1 == (num * Limb) % den
      l2 == (r1 * Limb) \div den
      r2 == (r1 * Limb) % den
      l3 == (r2 * Limb) \div den
      r3 == (r2 * Limb) % den
      l4 == (r3 * Limb) \div den
      r4 == (r3 * Limb) % den
  IN [w |-> RoundToEven([o |-> 0, l |-> <<l1, l2, l3, l4>>], r4 # 0),
      e |-> IF a < b THEN -k ELSE k]

\* x * 100
Times100(x) ==
  [w |-> RoundToEven(Carry(x.w.o * 100, [i \in 1..4 |-> x.w.l[i] * 100]), FALSE),
   e |-> x.e]

\* Math.round(x) for x.e < LimbBits: the integer part, plus one when the bit of
\* weight 1/2 is set
MathRound(x) ==
  LET top == x.w.o * Limb + x.w.l[1]
  IN (top \div Pow2(LimbBits - x.e)) + ((top \div Pow2(LimbBits - 1 - x.e)) % 2)

\* Math.round((onTimeTasks.count / totalTasks.count) * 100), or 100
onTimeCompletionRate(totalTasks, onTimeTasks) ==
  IF totalTasks > 0
  THEN IF onTimeTasks = 0 THEN 0
       ELSE MathRound(Times100(Divide(onTimeTasks, totalTasks)))
  ELSE 100

\* the metrics of a member from the five counts of its queries
memberMetrics(counts) ==
  LET rate == onTimeCompletionRate(counts.totalTasks, counts.onTimeTasks)
      collaborationScore == Min(100, counts.activities)
      weighted == counts.tasksCompleted * 40 + rate * 30
                  + Min(counts.comments * 10, 100) * 15 + collaborationScore * 15
  IN [tasksCompleted |-> counts.tasksCompleted,
      onTimeCompletion |-> rate,
      documentComments |-> counts.comments,
      collaborationScore |-> collaborationScore,
      totalScore |-> IF weighted = 0 THEN 0 ELSE MathRound(Divide(weighted, 100))]

\* the counts the five queries of a member can return: the completed tasks
\* are the on-time ones or all the assigned ones
CommentCounts == {0, 3, 11}
ActivityCounts == {2, 101}
MemberCounts ==
  UNION {{[tasksCompleted |-> tc, totalTasks |-> p[1], onTimeTasks |-> p[2],
           comments |-> cm, activities |-> a] :
            tc \in {p[2], p[1]}, cm \in CommentCounts, a \in ActivityCounts} :
         p \in {q \in (0..MaxAssigned) \X (0..MaxAssigned) : q[2] <= q[1]}}

\* one entry of performanceMetrics per team member
performanceMetrics ==
  [i \in DOMAIN teamMembers |-> [id |-> teamMembers[i].id, role |-> teamMembers[i].role]]

\* mutant: the forEach without its try/catch ends at the first send that
\* throws (the set is walked in the order of the connections)
teamPerformanceSendsUnguarded(message, threw) ==
  [c \in Conns |->
     IF c \in PerfTargets /\ \A d \in threw : c <= d THEN <<message>> ELSE <<>>]

\* performanceSubscribers.forEach: every open subscriber is sent the message,
\* whichever sends throw
teamPerformanceSends(message, threw) ==
  [c \in Conns |-> IF c \in PerfTargets THEN <<message>> ELSE <<>>]

\* await Promise.all(teamMembers.map(...)), then the sends; failed is the set
\* of members one of whose queries rejects, threw the subscribers whose
\* ws.send throws
PerfBroadcast(failed, threw) ==
  /\ perfMetrics > 0
  /\ failed \subseteq DOMAIN teamMembers
  /\ threw \subseteq (IF failed = {} THEN PerfTargets ELSE {})
  /\ perfMetrics' = perfMetrics - 1
  /\ sent' = IF failed = {}
             THEN teamPerformanceSends(TeamPerformanceMsg(performanceMetrics), threw)
             ELSE NoSent
  /\ last' = [op |-> "performance", ok |-> failed = {}, failed |-> failed,
              threw |-> threw, uncaught |-> failed # {}, before |-> Before]
  /\ UNCHANGED <<connState, authPending, clients, performanceSubscribers, tasks,
                 deleting, taskActivities, handlers, perfFind>>

\* ---- setInterval(..., 30000) ----
\* mutant: a tick that recomputes whether or not anybody subscribed
TimerTickAlways ==
  /\ perfFind + perfMetrics < MaxCycles
  /\ perfFind' = perfFind + 1
  /\ sent' = NoSent
  /\ last' = [op |-> "tick", before |-> Before]
  /\ UNCHANGED <<connState, authPending, clients, performanceSubscribers, tasks,
                 deleting, taskActivities, handlers, perfMetrics>>

TimerTick ==
  /\ performanceSubscribers # {} => perfFind + perfMetrics < MaxCycles
  /\ perfFind' = IF performanceSubscribers # {} THEN perfFind + 1 ELSE perfFind
  /\ sent' = NoSent
  /\ last' = [op |-> "tick", before |-> Before]
  /\ UNCHANGED <<connState, authPending, clients, performanceSubscribers, tasks,
                 deleting, taskActivities, handlers, perfMetrics>>

\* ---- the REST routes that delete rows the hub reads ----
WithoutTask(activities, t) == SelectSeq(activities, LAMBDA a : a.taskId # t)

\* DELETE /api/admin/tasks/:taskId/activities
DeleteTaskActivities(t) ==
  /\ taskActivities # WithoutTask(taskActivities, t)
  /\ taskActivities' = WithoutTask(taskActivities, t)
  /\ sent' = NoSent
  /\ last' = [op |-> "deleteActivities", task |-> t, before |-> Before]
  /\ UNCHANGED <<connState, authPending, clients, performanceSubscribers, tasks,
                 deleting, handlers, perfFind, perfMetrics>>

\* DELETE /api/admin/tasks/:id, first await: the activities of the task
DeleteTaskBegin(t) ==
  /\ t \notin deleting
  /\ tasks[t].exists
  /\ deleting' = deleting \cup {t}
  /\ taskActivities' = WithoutTask(taskActivities, t)
  /\ sent' = NoSent
  /\ last' = [op |-> "deleteTaskBegin", task |-> t, before |-> Before]
  /\ UNCHANGED <<connState, authPending, clients, performanceSubscribers, tasks,
                 handlers, perfFind, perfMetrics>>

\* DELETE /api/admin/tasks/:id, second await: the task
DeleteTaskEnd(t) ==
  /\ t \in deleting
  /\ deleting' = deleting \ {t}
  /\ tasks' = [tasks EXCEPT ![t] = NoTask]
  /\ sent' = NoSent
  /\ last' = [op |-> "deleteTaskEnd", task |-> t, before |-> Before]
  /\ UNCHANGED <<connState, authPending, clients, performanceSubscribers,
                 taskActivities, handlers, perfFind, perfMetrics>>

Next ==
  \/ \E c \in Conns : Connect(c)
  \/ \E c \in Conns : \E m \in Frames(HubShapes, authPending[c]) :
       OnMessage(c, m, MaxHandlers)
  \/ \E c \in Conns : PeerClosing(c)
  \/ \E c \in Conns : OnClose(c)
  \/ \E h \in Suspended("select") : \E ok \in BOOLEAN : TaskSelect(h, ok)
  \/ \E h \in Suspended("update") : \E ok \in BOOLEAN : TaskUpdateRow(h, ok)
  \/ \E h \in Suspended("insert") : \E ok \in BOOLEAN : \E threw \in SUBSET Conns :
       TaskInsert(h, ok, threw)
  \/ \E ok \in BOOLEAN : PerfFindMany(ok)
  \/ \E failed \in SUBSET DOMAIN teamMembers : \E threw \in SUBSET Conns :
       PerfBroadcast(failed, threw)
  \/ TimerTick
  \/ \E t \in TaskIds : DeleteTaskActivities(t)

\* the hub from its construction, under every kind of event
Spec == Init /\ [][Next]_vars

\* ---- task updates between registered connections ----
InitRegistered ==
  /\ connState = [c \in Conns |-> "OPEN"]
  /\ authPending = [c \in Conns |-> FALSE]
  /\ clients \in [Conns -> {Client(c, u, n) : c \in Conns, u \in UserIds, n \in UserNames}]
  /\ \A c \in Conns : clients[c].id = c
  /\ performanceSubscribers = {}
  /\ tasks = [t \in TaskIds |-> Row(t, "pending", 0)]
  /\ deleting = {}
  /\ taskActivities = <<>>
  /\ handlers = EmptyBag
  /\ perfFind = 0
  /\ perfMetrics = 0
  /\ sent = NoSent
  /\ last = [op |-> "init"]

NextTask ==
  \/ \E c \in Conns : \E m \in Frames(TaskShapes, FALSE) : OnMessage(c, m, MaxHandlers)
  \/ \E c \in Conns : PeerClosing(c)
  \/ \E c \in Conns : OnClose(c)
  \/ \E h \in Suspended("select") : \E ok \in BOOLEAN : TaskSelect(h, ok)
  \/ \E h \in Suspended("update") : \E ok \in BOOLEAN : TaskUpdateRow(h, ok)
  \/ \E h \in Suspended("insert") : \E ok \in BOOLEAN : \E threw \in SUBSET Conns :
       TaskInsert(h, ok, threw)
  \/ \E t \in TaskIds : DeleteTaskActivities(t)
  \/ \E t \in TaskIds : DeleteTaskBegin(t)
  \/ \E t \in TaskIds : DeleteTaskEnd(t)

SpecTask == InitRegistered /\ [][NextTask]_vars

\* ---- concurrent task updates ----
NextRace ==
  \/ \E c \in Conns : \E m \in Frames(RaceShapes, FALSE) : OnMessage(c, m, MaxRacing)
  \/ \E h \in Suspended("select") : \E ok \in BOOLEAN : TaskSelect(h, ok)
  \/ \E h \in Suspended("update") : \E ok \in BOOLEAN : TaskUpdateRow(h, ok)
  \/ \E h \in Suspended("insert") : \E ok \in BOOLEAN : \E threw \in SUBSET Conns :
       TaskInsert(h, ok, threw)
  \/ \E t \in TaskIds : DeleteTaskActivities(t)

SpecRace == InitRegistered /\ [][NextRace]_vars

\* ---- frames that claim an identity, on connections of different users ----
NextIdentity ==
  \/ \E c \in Conns : Connect(c)
  \/ \E c \in Conns : \E m \in FramesOf(ActorShapes, ClaimedIdentities) :
       OnMessage(c, m, MaxHandlers)
  \/ \E c \in Conns : OnClose(c)
  \/ \E h \in Suspended("select") : \E ok \in BOOLEAN : TaskSelect(h, ok)
  \/ \E h \in Suspended("update") : \E ok \in BOOLEAN : TaskUpdateRow(h, ok)
  \/ \E h \in Suspended("insert") : \E ok \in BOOLEAN : \E threw \in SUBSET Conns :
       TaskInsert(h, ok, threw)

SpecIdentity == Init /\ [][NextIdentity]_vars

\* ---- the metrics of one member, for every count of MemberCounts ----
InitMetrics ==
  /\ connState = [c \in Conns |-> "NONE"]
  /\ authPending = [c \in Conns |-> TRUE]
  /\ clients = [c \in Conns |-> NoClient]
  /\ performanceSubscribers = {}
  /\ tasks = [t \in TaskIds |-> Row(t, "pending", 0)]
  /\ deleting = {}
  /\ taskActivities = <<>>
  /\ handlers = EmptyBag
  /\ perfFind = 0
  /\ perfMetrics = 0
  /\ sent = NoSent
  /\ last \in {[op |-> "counts", counts |-> counts] : counts \in MemberCounts}

\* teamMembers.map(async (member) => ...) for one member, after its queries
CalculateMember ==
  /\ last.op = "counts"
  /\ last' = [op |-> "metrics", counts |-> last.counts,
              metrics |-> memberMetrics(last.counts)]
  /\ UNCHANGED <<connState, authPending, clients, performanceSubscribers, tasks,
                 deleting, taskActivities, handlers, perfFind, perfMetrics, sent>>

NextMetrics == CalculateMember

SpecMetrics == InitMetrics /\ [][NextMetrics]_vars

(***************************************************************************)
(* The claims.  Each is a predicate of the last step: `last.before` is     *)
(* the state the step started from, the variables are the state it left.   *)
(***************************************************************************)

\* the transition table as the specification prints it
TransitionTable ==
  {<<"pending", "in_progress">>, <<"pending", "completed">>, <<"pending", "cancelled">>,
   <<"in_progress", "completed">>, <<"in_progress", "cancelled">>,
   <<"in_progress", "pending">>,
   <<"completed", "pending">>, <<"cancelled", "pending">>}

\* the last step was the data-store call `op` of a task_update, and the call succeeded
DbStep(op) == last.op = op /\ last.ok

\* the task the last step's handler is about, before the step and after it
TaskBefore == last.before.tasks[last.h.taskId]
TaskAfter == tasks[last.h.taskId]

\* the connections the registry held open when the last step began
OpenBefore ==
  {c \in Conns : last.before.clients[c].registered /\ last.before.connState[c] = "OPEN"}

OnlySent(msgs, type) == Len(msgs) = 1 /\ msgs[1].type = type
OnlyError(msgs, code) == OnlySent(msgs, "error") /\ msgs[1].code = code
SentOf(c, type) == SelectSeq(sent[c], LAMBDA msg : msg.type = type)

\* C1: a task_update of an existing task to a status the transition table lists
\* under the stored one, all of whose data-store calls succeed and whose task is
\* still there when it is written, passes validation, sets the status to the
\* requested one, creates exactly one activity record, sends exactly one
\* task_update event to every other registered open connection and none to the
\* sender, and exactly one task_update_success to the sender.
C1_ValidUpdateSucceeds ==
  /\ ( /\ DbStep("select")
       /\ TaskBefore.exists
       /\ <<TaskBefore.status, last.h.status>> \in TransitionTable )
     => /\ \E g \in BagToSet(handlers) :
             g.pc = "update" /\ g.conn = last.h.conn /\ g.status = last.h.status
        /\ BagCardinality(handlers) = BagCardinality(last.before.handlers)
        /\ sent = NoSent
  /\ (DbStep("update") /\ TaskBefore.exists)
     => /\ TaskAfter.exists
        /\ TaskAfter.status = last.h.status
        /\ sent = NoSent
  /\ (DbStep("insert") /\ last.h.updatedTask.exists)
     => /\ Len(taskActivities) = Len(last.before.taskActivities) + 1
        /\ OnlySent(sent[last.conn], "task_update_success")
        /\ sent[last.conn][1].task.status = last.h.status
        /\ \A c \in Conns \ {last.conn} :
             IF c \in OpenBefore
             THEN /\ OnlySent(sent[c], "task_update")
                  /\ sent[c][1].task.status = last.h.status
             ELSE sent[c] = <<>>

\* a successful update has just been announced to the sender and to another connection
C1_Witness ==
  /\ DbStep("insert")
  /\ OnlySent(sent[last.conn], "task_update_success")
  /\ \E c \in Conns \ {last.conn} : OnlySent(sent[c], "task_update")
  /\ Len(taskActivities) = Len(last.before.taskActivities) + 1

\* this step changed no row and ended the handler with one error to its sender
RejectedWith(code) ==
  /\ tasks = last.before.tasks
  /\ taskActivities = last.before.taskActivities
  /\ handlers = last.before.handlers (-) SetToBag({last.h})
  /\ OnlyError(sent[last.conn], code)
  /\ \A c \in Conns \ {last.conn} : sent[c] = <<>>

\* C2: a task_update of an existing task to a status the transition table does
\* not list under the stored one (the stored one itself included) is rejected:
\* the task row and the activity table are unchanged, the handler ends, no other
\* connection is sent anything and the sender is sent one error with code
\* INVALID_STATUS_TRANSITION.
C2_InvalidUpdateRejected ==
  ( /\ DbStep("select")
    /\ TaskBefore.exists
    /\ <<TaskBefore.status, last.h.status>> \notin TransitionTable )
  => RejectedWith("INVALID_STATUS_TRANSITION")

\* a completed task has just been refused its cancellation
C2_Witness ==
  /\ DbStep("select")
  /\ TaskBefore.exists
  /\ TaskBefore.status = "completed"
  /\ last.h.status = "cancelled"
  /\ OnlyError(sent[last.conn], "INVALID_STATUS_TRANSITION")

\* C3: a task_update whose taskId matches no task is answered with one error
\* with code TASK_NOT_FOUND to the sender and nothing else: no task and no
\* activity record changes, the handler ends, no other connection is sent
\* anything.
C3_UnknownTaskRejected ==
  (DbStep("select") /\ ~TaskBefore.exists) => RejectedWith("TASK_NOT_FOUND")

\* an update of a deleted task has just been refused
C3_Witness ==
  /\ DbStep("select")
  /\ ~TaskBefore.exists
  /\ OnlyError(sent[last.conn], "TASK_NOT_FOUND")

\* the last step handled a frame from connection last.conn
Received == last.op = "message"

\* the frame was the first of its connection / came from a registered connection
Handshake == Received /\ last.first
FromRegistered == Received /\ last.before.clients[last.conn].registered

\* the frame is JSON of neither recognized kind
Unrecognized(m) ==
  /\ m.json
  /\ m.type # "subscribe_team_performance"
  /\ m.type # "task_update" \/ m.taskId = 0 \/ ~m.changes

\* C4: a first frame that fails to parse, or parses but lacks userId or
\* username, leaves its connection closing or closed and out of the registry.
C4_BadHandshakeCloses ==
  ( /\ Handshake
    /\ ~last.frame.json \/ last.frame.userId = 0 \/ last.frame.username = "" )
  => /\ connState[last.conn] \in {"CLOSING", "CLOSED"}
     /\ ~clients[last.conn].registered

\* this step left everything but `sent` as it found it
NothingChanged ==
  /\ connState = last.before.connState
  /\ clients = last.before.clients
  /\ performanceSubscribers = last.before.subscribers
  /\ tasks = last.before.tasks
  /\ taskActivities = last.before.taskActivities
  /\ handlers = last.before.handlers
  /\ perfFind = last.before.perfFind
  /\ perfMetrics = last.before.perfMetrics

\* C5: a frame from a registered connection that is not JSON is answered with
\* one error with code MESSAGE_PARSE_ERROR to that connection; the connection
\* is not closed and stays in the registry and, if it was there, in the
\* subscription set; no task or activity record is touched.
C5_NonJsonAnswered ==
  (FromRegistered /\ ~last.frame.json)
  => /\ OnlyError(sent[last.conn], "MESSAGE_PARSE_ERROR")
     /\ \A c \in Conns \ {last.conn} : sent[c] = <<>>
     /\ NothingChanged

\* a subscribed connection has just sent a frame that is not JSON
C5_Witness ==
  /\ FromRegistered
  /\ ~last.frame.json
  /\ last.conn \in performanceSubscribers
  /\ connState[last.conn] = "OPEN"
  /\ OnlyError(sent[last.conn], "MESSAGE_PARSE_ERROR")

\* C6: a JSON frame from a registered connection that is no recognized message
\* is answered with an error with code MESSAGE_PARSE_ERROR, and the connection
\* stays open.
C6_UnrecognizedAnswered ==
  (FromRegistered /\ Unrecognized(last.frame))
  => /\ OnlyError(sent[last.conn], "MESSAGE_PARSE_ERROR")
     /\ connState[last.conn] = last.before.connState[last.conn]

\* C7: a connection whose close event has fired is in neither the registry nor
\* the subscription set, whatever handlers of it are still suspended, and no
\* step sends it a task_update or team_performance broadcast.
C7_ClosedIsGone ==
  \A c \in Conns :
    connState[c] = "CLOSED"
    => /\ ~clients[c].registered
       /\ c \notin performanceSubscribers
       /\ SentOf(c, "team_performance") = <<>>
       /\ SentOf(c, "task_update") = <<>>

\* a subscribed connection has just closed while its task_update awaits the data store
C7_Witness ==
  /\ last.op = "close"
  /\ last.conn \in last.before.subscribers
  /\ last.conn \notin performanceSubscribers
  /\ \E h \in BagToSet(handlers) : h.conn = last.conn

\* C8: every subscriber is in the registry.
C8_SubscribersRegistered ==
  \A c \in performanceSubscribers : clients[c].registered

\* one subscriber remains after another has closed
C8_Witness ==
  /\ last.op = "close"
  /\ last.conn \in last.before.subscribers
  /\ performanceSubscribers # {}

\* the members of a team_performance message are the team members of the
\* users table, one entry each
OnePerTeamMember(members) ==
  LET ids == {users[i].id : i \in {j \in DOMAIN users : users[j].role = "team_member"}}
  IN /\ Len(members) = Cardinality(ids)
     /\ \A u \in ids : Cardinality({j \in DOMAIN members : members[j].id = u}) = 1

\* C9: subscribe_team_performance from a registered connection adds it to the
\* subscription set and starts a recomputation in the same step; a
\* recomputation that succeeds sends every subscriber that is open then one
\* team_performance message with exactly one entry per team member.
C9_SubscribeBroadcasts ==
  /\ ( /\ FromRegistered
       /\ last.frame.json
       /\ last.frame.type = "subscribe_team_performance" )
     => /\ last.conn \in performanceSubscribers
        /\ perfFind = last.before.perfFind + 1
  /\ (last.op = "performance" /\ last.ok)
     => \A c \in last.before.subscribers :
          last.before.connState[c] = "OPEN"
          => /\ OnlySent(sent[c], "team_performance")
             /\ OnePerTeamMember(sent[c][1].members)

\* a recomputation has just reached two subscribers
C9_Witness ==
  /\ last.op = "performance"
  /\ last.ok
  /\ Cardinality({c \in Conns : OnlySent(sent[c], "team_performance")}) >= 2

\* C10: with task_update handlers of several connections suspended at once,
\* each is validated against the status its own select returns, each update
\* that finds the row writes its status whatever was written since its select,
\* and no step of a handler ends in an uncaught error.
C10_LastWriteWins ==
  /\ (DbStep("select") /\ TaskBefore.exists)
     => IF <<TaskBefore.status, last.h.status>> \in TransitionTable
        THEN handlers = (last.before.handlers (-) SetToBag({last.h})) (+) SetToBag(
               {[last.h EXCEPT !.pc = "update", !.currentStatus = TaskBefore.status]})
        ELSE handlers = last.before.handlers (-) SetToBag({last.h})
  /\ (DbStep("update") /\ TaskBefore.exists)
     => TaskAfter.exists /\ TaskAfter.status = last.h.status
  /\ last.op \in {"message", "select", "update", "insert"} => ~last.uncaught

\* both handlers passed validation against "the" status each read; the second
\* has just overwritten the status the first wrote
C10_Witness ==
  /\ DbStep("update")
  /\ TaskBefore.exists
  /\ TaskBefore.status # last.h.currentStatus
  /\ TaskAfter.status = last.h.status
  /\ \E g \in BagToSet(handlers) :
       /\ g.pc = "insert"
       /\ g.conn # last.conn
       /\ g.taskId = last.h.taskId
       /\ g.currentStatus = last.h.currentStatus
       /\ g.updatedTask.exists
       /\ g.status = TaskBefore.status

\* the last step was a data-store call of a task_update, and the call failed
DbFailure == last.op \in {"select", "update", "insert"} /\ ~last.ok

\* C11: when the task lookup, the status update or the activity insert of a
\* task_update fails, the error is caught (none escapes the handler), the
\* handler ends, the sender is sent one error with code DATABASE_ERROR, no
\* other connection is sent anything, and the connections and the registry
\* are as before, so that the hub takes the next message.
C11_DatabaseErrorCaught ==
  DbFailure
  => /\ ~last.uncaught
     /\ OnlyError(sent[last.conn], "DATABASE_ERROR")
     /\ \A c \in Conns \ {last.conn} : sent[c] = <<>>
     /\ handlers = last.before.handlers (-) SetToBag({last.h})
     /\ connState = last.before.connState
     /\ clients = last.before.clients
     /\ performanceSubscribers = last.before.subscribers

\* the activity insert has just failed after the status was written, with
\* another connection open
C11_Witness ==
  /\ DbFailure
  /\ last.op = "insert"
  /\ last.h.updatedTask.exists
  /\ OnlyError(sent[last.conn], "DATABASE_ERROR")
  /\ \E c \in Conns \ {last.conn} : c \in OpenBefore /\ sent[c] = <<>>

\* the subscribers that were registered and open when the last step began
OpenSubscribersBefore == {c \in last.before.subscribers : c \in OpenBefore}

C13_NothingEscapes ==
  last.op \in {"message", "select", "update", "insert", "findMany", "performance"}
  => ~last.uncaught

\* C14: the first frame of a connection, when it carries a user id and a
\* name, puts the connection in the registry with exactly those values and is
\* answered with one `connected`; no later frame changes any registry entry
\* or is answered with `connected`, whatever identity it claims; an entry
\* appears or changes in no other step.
C14_RegisteredOnce ==
  /\ ( /\ Handshake
       /\ last.frame.json
       /\ last.frame.userId # 0
       /\ last.frame.username # "" )
     => /\ clients[last.conn] =
             [registered |-> TRUE, id |-> last.conn,
              userId |-> last.frame.userId, username |-> last.frame.username]
        /\ Len(SentOf(last.conn, "connected")) = 1
  /\ (Received /\ ~last.first)
     => /\ clients = last.before.clients
        /\ \A c \in Conns : SentOf(c, "connected") = <<>>
  /\ last.op # "init"
     => \A c \in Conns :
          (clients[c].registered /\ clients[c] # last.before.clients[c])
          => Handshake /\ last.conn = c

\* a registered connection has just sent a frame that claims another user id
\* and another name, and its entry is the one of its handshake
C14_Witness ==
  /\ FromRegistered
  /\ ~last.first
  /\ last.frame.json
  /\ last.frame.userId \notin {0, clients[last.conn].userId}
  /\ last.frame.username \notin {"", clients[last.conn].username}
  /\ clients[last.conn] = last.before.clients[last.conn]

\* r is a / b rounded to the nearest integer, halves upwards (a >= 0, b > 0)
IsRounded(r, a, b) == 2 * b * r - b <= 2 * a /\ 2 * a < 2 * b * r + b

\* C15: the metrics computed from the counts of a member are
\* onTimeCompletion = round(onTimeCompleted / totalAssigned * 100), or 100 with
\* nothing assigned, collaborationScore = min(100, activities), and totalScore
\* = round((tasksCompleted*40 + onTimeCompletion*30 + min(comments*10, 100)*15
\* + collaborationScore*15) / 100); 5 completed of 5 assigned, all on time, 3
\* comments and 2 activities give 100, 2 and 37.
C15_ScoreFormula ==
  last.op = "metrics"
  => LET counts == last.counts
         metrics == last.metrics
     IN /\ IF counts.totalTasks > 0
           THEN IsRounded(metrics.onTimeCompletion, counts.onTimeTasks * 100,
                          counts.totalTasks)
           ELSE metrics.onTimeCompletion = 100
        /\ metrics.collaborationScore = Min(100, counts.activities)
        /\ IsRounded(metrics.totalScore,
                     counts.tasksCompleted * 40 + metrics.onTimeCompletion * 30
                     + Min(counts.comments * 10, 100) * 15
                     + metrics.collaborationScore * 15,
                     100)
        /\ ( /\ counts.tasksCompleted = 5 /\ counts.totalTasks = 5
             /\ counts.onTimeTasks = 5 /\ counts.comments = 3 /\ counts.activities = 2 )
           => /\ metrics.onTimeCompletion = 100
              /\ metrics.collaborationScore = 2
              /\ metrics.totalScore = 37

\* C16: the update of a task_update that finds its row stores the completedAt
\* of the message when the new status is completed, and null (0) when it is
\* pending, in_progress or cancelled, whatever completedAt the message carried.
C16_CompletedAtFollowsStatus ==
  (DbStep("update") /\ TaskBefore.exists)
  => TaskAfter.completedAt =
       (IF last.h.status = "completed" THEN last.h.completedAt ELSE 0)

\* the actor of an event
Actor(msg) == msg.activity.user

\* C17: a task_update handler holds the registry entry its connection got at
\* its handshake; the activity row it inserts carries that entry's user id, and
\* the task_update and task_update_success events carry that entry's user id
\* and name, whatever userId the task_update message itself carried.
C17_ActorIsRegisteredUser ==
  /\ \A h \in BagToSet(handlers) :
       /\ h.client.registered
       /\ h.client.id = h.conn
       /\ clients[h.conn].registered => h.client = clients[h.conn]
  /\ DbStep("insert")
     => /\ taskActivities[Len(taskActivities)].userId = last.h.client.userId
        /\ \A c \in Conns : \A i \in DOMAIN sent[c] :
             Actor(sent[c][i]) =
               [id |-> last.h.client.userId, username |-> last.h.client.username]

\* an update whose message named the user of the other connection has just
\* been announced to that connection with the sender as actor
C17_Witness ==
  /\ DbStep("insert")
  /\ last.h.updatedTask.exists
  /\ last.h.userId # last.h.client.userId
  /\ \E c \in Conns \ {last.conn} :
       /\ clients[c].registered
       /\ clients[c].userId = last.h.userId
       /\ OnlySent(sent[c], "task_update")
       /\ Actor(sent[c][1]).id = last.h.client.userId
  /\ OnlySent(sent[last.conn], "task_update_success")

\* C18: a tick of the timer starts one recomputation (one more call awaiting
\* users.findMany) when the subscription set is not empty at the tick, and none
\* when it is empty: then the tick changes nothing; a tick itself sends nothing.
C18_TickOnlyWithSubscribers ==
  last.op = "tick"
  => /\ sent = NoSent
     /\ IF last.before.subscribers # {}
        THEN perfFind = last.before.perfFind + 1
        ELSE NothingChanged

\* the timer has just ticked idly: nobody is subscribed, a connection has closed
C18_Witness ==
  /\ last.op = "tick"
  /\ last.before.subscribers = {}
  /\ \E c \in Conns : connState[c] = "CLOSED"
  /\ perfFind = 0
  /\ sent = NoSent

\* the last step was a step of a task_update: its receipt from a registered
\* connection, or one of its data-store calls
TaskUpdateStep ==
  \/ FromRegistered /\ IsTaskUpdate(last.frame) /\ last.frame.json
  \/ last.op \in {"select", "update", "insert"}

C20_MemberFailureIsolated ==
  ( /\ last.op = "performance"
    /\ last.failed # {}
    /\ last.failed # DOMAIN teamMembers )
  => \A c \in OpenSubscribersBefore :
       /\ OnlySent(sent[c], "team_performance")
       /\ \A i \in DOMAIN teamMembers \ last.failed :
            \E j \in DOMAIN sent[c][1].members :
              sent[c][1].members[j].id = teamMembers[i].id

\* the connection of the last step's handler had closed before the step
SenderClosed == last.before.connState[last.conn] = "CLOSED"

\* C21: the close of a connection ends none of its suspended task_update
\* handlers, and a handler whose connection has closed goes on as any other:
\* after a lookup that finds a status the table allows to change it awaits the
\* update, its update writes the status, its insert creates the activity record
\* and sends the task_update event to every other open registered connection.
C21_NoCancellation ==
  /\ last.op \in {"closing", "close"} => handlers = last.before.handlers
  /\ ( /\ DbStep("select") /\ SenderClosed /\ TaskBefore.exists
       /\ <<TaskBefore.status, last.h.status>> \in TransitionTable )
     => handlers = (last.before.handlers (-) SetToBag({last.h})) (+) SetToBag(
          {[last.h EXCEPT !.pc = "update", !.currentStatus = TaskBefore.status]})
  /\ (DbStep("update") /\ SenderClosed /\ TaskBefore.exists)
     => /\ TaskAfter.exists
        /\ TaskAfter.status = last.h.status
        /\ \E g \in BagToSet(handlers) : g.pc = "insert" /\ g.conn = last.conn
  /\ (DbStep("insert") /\ SenderClosed /\ last.h.updatedTask.exists)
     => /\ taskActivities = Append(last.before.taskActivities, NewActivity(last.h))
        /\ \A c \in OpenBefore \ {last.conn} : OnlySent(sent[c], "task_update")

\* the update of a connection that closed while its handler awaited the data
\* store has just been persisted, recorded and announced to the other connection
C21_Witness ==
  /\ DbStep("insert")
  /\ SenderClosed
  /\ last.h.updatedTask.exists
  /\ tasks[last.h.taskId].exists
  /\ tasks[last.h.taskId].status = last.h.status
  /\ Len(taskActivities) = Len(last.before.taskActivities) + 1
  /\ \E c \in Conns \ {last.conn} : OnlySent(sent[c], "task_update")

\* C22: a task_update handler that reaches its activity insert has persisted a
\* status change exactly when the insert creates the activity record: no
\* status change stays without its record, and no record is created without a
\* status change.
C22_StatusChangeIffActivity ==
  last.op = "insert"
  => (last.h.updatedTask.exists
      <=> taskActivities = Append(last.before.taskActivities, NewActivity(last.h)))

\* the last step ended its task_update handler
HandlerEnded ==
  /\ last.op \in {"select", "update", "insert"}
  /\ handlers = last.before.handlers (-) SetToBag({last.h})

\* the replies a task_update can get
IsReply(msg) ==
  \/ msg.type = "task_update_success"
  \/ /\ msg.type = "error"
     /\ msg.code \in {"TASK_NOT_FOUND", "INVALID_STATUS_TRANSITION", "DATABASE_ERROR"}

\* C23: a task_update handler sends its sender nothing while it goes on to its
\* next data-store call, and exactly one reply, a task_update_success or an
\* error with code TASK_NOT_FOUND, INVALID_STATUS_TRANSITION or DATABASE_ERROR,
\* in the step that ends it, also when its update found no row.
C23_ExactlyOneReply ==
  last.op \in {"select", "update", "insert"}
  => IF HandlerEnded
     THEN Len(sent[last.conn]) = 1 /\ IsReply(sent[last.conn][1])
     ELSE sent[last.conn] = <<>>

\* C24: under any interleaving of task_update handlers, every status an update
\* writes is a table edge away from the status that was stored immediately
\* before that write, and the status the handler's activity record will name
\* as the one changed from (currentStatus) is that immediately preceding status.
C24_EveryWriteIsATableEdge ==
  (DbStep("update") /\ TaskBefore.exists)
  => /\ <<TaskBefore.status, TaskAfter.status>> \in TransitionTable
     /\ last.h.currentStatus = TaskBefore.status

\* C25: a frame that arrives on a connection that is not in the registry, the
\* handshake frame itself included even when it has the shape of a task_update
\* or of a subscription, is never processed as an application message: it
\* starts no task_update handler (so no data-store read or write), adds no
\* subscription, starts no team-performance cycle and sends nothing to any
\* other connection; its own connection gets at most the parse error and the
\* greeting.
C25_UnregisteredNotProcessed ==
  (Received /\ ~last.before.clients[last.conn].registered)
  => /\ handlers = last.before.handlers
     /\ tasks = last.before.tasks
     /\ taskActivities = last.before.taskActivities
     /\ performanceSubscribers = last.before.subscribers
     /\ perfFind = last.before.perfFind
     /\ perfMetrics = last.before.perfMetrics
     /\ \A c \in Conns \ {last.conn} : sent[c] = <<>>
     /\ \A i \in 1..Len(sent[last.conn]) :
          \/ sent[last.conn][i] = ConnectedMsg
          \/ sent[last.conn][i] = ParseErrorMsg

\* a handshake frame that carries a full identity and is also a well-formed
\* task_update has registered its connection and started no handler
C25_Witness ==
  /\ Handshake
  /\ IsTaskUpdate(last.frame)
  /\ last.frame.userId # 0
  /\ last.frame.username # ""
  /\ ~last.before.clients[last.conn].registered
  /\ clients[last.conn].registered
  /\ handlers = last.before.handlers
  /\ sent[last.conn] = <<ConnectedMsg>>

\* C26: a task_update event and a team_performance event are handed only to
\* connections that were in the registry and OPEN when the step that sent them
\* began (so never to a connection that has not completed the handshake), and
\* a team_performance event only to connections in the subscription set.
C26_EventsOnlyToRegisteredOpen ==
  \A c \in Conns :
    /\ SentOf(c, "task_update") # <<>>
       => /\ last.before.clients[c].registered
          /\ last.before.connState[c] = "OPEN"
    /\ SentOf(c, "team_performance") # <<>>
       => /\ last.before.clients[c].registered
          /\ last.before.connState[c] = "OPEN"
          /\ c \in last.before.subscribers

\* a team-performance broadcast reached a subscriber while another connection,
\* registered and OPEN but not subscribed, received nothing
C26_Witness ==
  /\ last.op = "performance"
  /\ \E c \in Conns : OnlySent(sent[c], "team_performance")
  /\ \E c \in Conns :
       /\ last.before.clients[c].registered
       /\ last.before.connState[c] = "OPEN"
       /\ c \notin last.before.subscribers
       /\ sent[c] = <<>>

====
